---- MODULE Spec2Model ----
(***************************************************************************)
(* A model of faktor3 (src/src/lib.rs): the `.env` loader init_inner, the  *)
(* line parser split_once and the two assignment policies Override/Skip.   *)
(*                                                                         *)
(* A string is a sequence of one-character strings.  The reader's content  *)
(* is a byte string `file`, which BufRead::lines cuts at "\n".  The        *)
(* process environment is a function from the keys that are set to their   *)
(* values.  Option<&str> is <<>> (None) or <<v>> (Some(v)).                *)
(*                                                                         *)
(* The alphabet has no NUL: for a key or value holding NUL the standard    *)
(* library's env::set_var panics, which is outside this model.             *)
(***************************************************************************)
EXTENDS Naturals, Sequences, FiniteSets, TLC

VARIABLES
    file,        \* the reader's whole content
    mode,        \* the policy handed to init_inner
    envStart,    \* the environment store when the current load began
    env,         \* the environment store
    pos,         \* lines the loop has read successfully in the current load
    status,      \* "running" | "ok" | "err"  (SpecSplit: "call" | "ret")
    calls,       \* the mode.set invocations of the current load, in order
    failedLine,  \* 0, or the line number of the first failing read or set
    reloaded,    \* TRUE once the same content is loaded a second time
    parsed       \* the last (key, value) pair split_once returned

vars == <<file, mode, envStart, env, pos, status, calls, failedLine, reloaded, parsed>>

\* ------------------------------------------------------------------ bounds
MaxBytes == 5

\* ------------------------------------------------------------------ inputs
LF == "\n"
Chars == {"a", "=", " ", "#", LF}
Files == UNION {[1..n -> Chars] : n \in 0..MaxBytes}

NonUnicode == <<"\\xFF">>
InitEnvs ==
    { <<>>,
      (<<"a">> :> <<>>),
      (<<"a">> :> <<"o">>) @@ (<<"a", "a">> :> <<"o">>),
      (<<"a">> :> NonUnicode) }

Modes == {"Override", "Skip", "Other"}

\* ------------------------------------------------------------- std helpers
None == <<>>
Some(v) == <<v>>

is_whitespace(c) == c \in {" ", LF}

RECURSIVE trim_start(_)
trim_start(s) ==
    IF s # <<>> /\ is_whitespace(Head(s)) THEN trim_start(Tail(s)) ELSE s

RECURSIVE trim_end(_)
trim_end(s) ==
    IF s # <<>> /\ is_whitespace(s[Len(s)])
    THEN trim_end(SubSeq(s, 1, Len(s) - 1))
    ELSE s

\* mutants of trim: only one end is stripped
trim_end_only(s) == trim_end(s)
trim_start_only(s) == trim_start(s)

trim(s) == trim_end(trim_start(s))

\* mutant of starts_with: the comment check never matches
starts_with_never(s, c) == FALSE

starts_with(s, c) == s # <<>> /\ s[1] = c

\* mutant of is_empty: the empty-key check never matches
is_empty_never(s) == FALSE

is_empty(s) == s = <<>>

\* str::find: the index of the first c in s, 0 when there is none
find(s, c) ==
    IF \E i \in 1..Len(s) : s[i] = c
    THEN CHOOSE i \in 1..Len(s) : s[i] = c /\ \A j \in 1..(i - 1) : s[j] # c
    ELSE 0

\* BufRead::lines: the content cut at each "\n"; no final empty line
RECURSIVE lines(_)
lines(b) ==
    IF b = <<>> THEN <<>>
    ELSE LET n == find(b, LF)
         IN  IF n = 0 THEN <<b>>
             ELSE <<SubSeq(b, 1, n - 1)>> \o lines(SubSeq(b, n + 1, Len(b)))

\* env::var, env::set_var, env::remove_var
var(e, key) ==
    IF key \notin DOMAIN e THEN "NotPresent"
    ELSE IF e[key] = NonUnicode THEN "NotUnicode"
    ELSE "Ok"

set_var(e, key, val) ==
    [k \in (DOMAIN e) \cup {key} |-> IF k = key THEN val ELSE e[k]]

\* mutant of remove_var: the removal is lost
remove_var_lost(e, key) == e

remove_var(e, key) == [k \in (DOMAIN e) \ {key} |-> e[k]]

\* ----------------------------------------------------------------- parser
\* mutant of split_once: splits at the last '=' (rsplitn)
split_once_last(in_string) ==
    IF \A i \in 1..Len(in_string) : in_string[i] # "=" THEN <<in_string, None>>
    ELSE LET i == CHOOSE i \in 1..Len(in_string) :
                      in_string[i] = "=" /\ \A j \in (i + 1)..Len(in_string) : in_string[j] # "="
         IN  <<SubSeq(in_string, 1, i - 1),
               Some(SubSeq(in_string, i + 1, Len(in_string)))>>

split_once(in_string) ==
    LET i == find(in_string, "=")
    IN  IF i = 0 THEN <<in_string, None>>
        ELSE <<SubSeq(in_string, 1, i - 1),
               Some(SubSeq(in_string, i + 1, Len(in_string)))>>

\* --------------------------------------------------------------- policies
\* mutant of OverrideSet: Some("") sets the empty string
OverrideSet_sets_empty(e, key, value) ==
    IF value = None
    THEN [env |-> remove_var(e, key), res |-> "Ok"]
    ELSE [env |-> set_var(e, key, value[1]), res |-> "Ok"]

\* mutant of OverrideSet: the value is appended to the one already there
OverrideSet_appends(e, key, value) ==
    IF value = Some(<<>>) \/ value = None
    THEN [env |-> remove_var(e, key), res |-> "Ok"]
    ELSE [env |-> set_var(e, key,
                     (IF key \in DOMAIN e THEN e[key] ELSE <<>>) \o value[1]),
          res |-> "Ok"]

OverrideSet(e, key, value) ==
    IF value = Some(<<>>) \/ value = None
    THEN [env |-> remove_var(e, key), res |-> "Ok"]
    ELSE [env |-> set_var(e, key, value[1]), res |-> "Ok"]

\* mutant of SkipSet: a variable set to "" counts as absent
SkipSet_empty_is_absent(e, key, value) ==
    IF value # None /\ (var(e, key) = "NotPresent" \/ e[key] = <<>>)
    THEN [env |-> set_var(e, key, value[1]), res |-> "Ok"]
    ELSE [env |-> e, res |-> "Ok"]

SkipSet(e, key, value) ==
    IF value # None /\ var(e, key) = "NotPresent"
    THEN [env |-> set_var(e, key, value[1]), res |-> "Ok"]
    ELSE [env |-> e, res |-> "Ok"]

\* any other implementer of the trait: its set may return an error
OtherSet(e, key, value, res) == [env |-> e, res |-> res]

SetResults(m) == IF m = "Other" THEN {"Ok", "Err"} ELSE {"Ok"}

Set(m, e, key, value, res) ==
    CASE m = "Override" -> OverrideSet(e, key, value)
      [] m = "Skip"     -> SkipSet(e, key, value)
      [] OTHER          -> OtherSet(e, key, value, res)

\* mutant of Try: the error is dropped and the loop goes on
Try_ignored(res) == "running"

\* the `?` operator: an error returns from the load, Ok goes on
Try(res) == IF res = "Err" THEN "err" ELSE "running"

\* ----------------------------------------------------------------- loader
FirstFailure(res) ==
    IF failedLine = 0 /\ res = "Err" THEN pos + 1 ELSE failedLine

Init ==
    /\ file \in Files
    /\ mode \in Modes
    /\ envStart \in InitEnvs
    /\ env = envStart
    /\ pos = 0
    /\ status = "running"
    /\ calls = <<>>
    /\ failedLine = 0
    /\ reloaded = FALSE
    /\ parsed = <<>>

\* one iteration of the loop for a line that was read
ReadLine ==
    /\ status = "running"
    /\ pos < Len(lines(file))
    /\ pos' = pos + 1
    /\ LET line == trim(lines(file)[pos + 1])
       IN  IF starts_with(line, "#")
           THEN UNCHANGED <<env, status, calls, failedLine, parsed>>
           ELSE LET kv == split_once(line)
                    key == trim(kv[1])
                    value == kv[2]
                IN  /\ parsed' = kv
                    /\ IF is_empty(key)
                       THEN UNCHANGED <<env, status, calls, failedLine>>
                       ELSE \E res \in SetResults(mode) :
                              LET out == Set(mode, env, key, value, res)
                              IN  /\ env' = out.env
                                  /\ calls' = Append(calls,
                                        [line |-> pos + 1, key |-> key,
                                         value |-> value, before |-> env,
                                         res |-> out.res])
                                  /\ failedLine' = FirstFailure(out.res)
                                  /\ status' = Try(out.res)
    /\ UNCHANGED <<file, mode, envStart, reloaded>>

\* the reader fails to produce the next line
ReadErr ==
    /\ status = "running"
    /\ failedLine' = FirstFailure("Err")
    /\ status' = Try("Err")
    /\ UNCHANGED <<file, mode, envStart, env, pos, calls, reloaded, parsed>>

\* the reader is exhausted: Ok(())
Eof ==
    /\ status = "running"
    /\ pos = Len(lines(file))
    /\ status' = "ok"
    /\ UNCHANGED <<file, mode, envStart, env, pos, calls, failedLine, reloaded, parsed>>

\* init_inner is called once more on the same content with the same policy
Reload ==
    /\ status = "ok"
    /\ ~reloaded
    /\ reloaded' = TRUE
    /\ envStart' = env
    /\ pos' = 0
    /\ status' = "running"
    /\ calls' = <<>>
    /\ failedLine' = 0
    /\ UNCHANGED <<file, mode, env, parsed>>

Next == ReadLine \/ ReadErr \/ Eof \/ Reload

Spec == Init /\ [][Next]_vars

\* ------------------------------------------------- split_once called alone
InitSplit ==
    /\ file \in Files
    /\ mode = "Override"
    /\ envStart = <<>>
    /\ env = <<>>
    /\ pos = 0
    /\ status = "call"
    /\ calls = <<>>
    /\ failedLine = 0
    /\ reloaded = FALSE
    /\ parsed = <<>>

CallSplitOnce ==
    /\ status = "call"
    /\ parsed' = split_once(file)
    /\ status' = "ret"
    /\ UNCHANGED <<file, mode, envStart, env, pos, calls, failedLine, reloaded>>

NextSplit == CallSplitOnce

SpecSplit == InitSplit /\ [][NextSplit]_vars

\* ------------------------------------------- what the claims are stated in
Blank(c) == c = " "
EqIdx(s) == {i \in 1..Len(s) : s[i] = "="}
FirstEq(s) ==
    IF EqIdx(s) = {} THEN Len(s) + 1
    ELSE CHOOSE i \in EqIdx(s) : \A j \in EqIdx(s) : i <= j
BeforeEq(s) == [i \in 1..(FirstEq(s) - 1) |-> s[i]]
AfterEq(s) == [i \in 1..(Len(s) - FirstEq(s)) |-> s[i + FirstEq(s)]]
Inked(s) == {i \in 1..Len(s) : ~Blank(s[i])}
Lo(s) == CHOOSE i \in Inked(s) : \A j \in Inked(s) : i <= j
Hi(s) == CHOOSE i \in Inked(s) : \A j \in Inked(s) : j <= i
Strip(s) ==
    IF Inked(s) = {} THEN <<>> ELSE [i \in 1..(Hi(s) - Lo(s) + 1) |-> s[i + Lo(s) - 1]]
StripEnd(s) == IF Inked(s) = {} THEN <<>> ELSE [i \in 1..Hi(s) |-> s[i]]
IsCommentLine(s) == Inked(s) # {} /\ s[Lo(s)] = "#"
HasKey(s) == Inked(BeforeEq(s)) # {}
RawLine(i) == lines(file)[i]
LastCall == calls[Len(calls)]
CalledAt(i) == \E n \in 1..Len(calls) : calls[n].line = i
Without(e, k) == [x \in (DOMAIN e) \ {k} |-> e[x]]

\* the store the text of section 4.2 asks for after apply(key, value)
Applied(m, e, key, value) ==
    CASE m = "Override" ->
           IF value = None \/ value = Some(<<>>) THEN Without(e, key)
           ELSE (key :> value[1]) @@ e
      [] m = "Skip" ->
           IF value # None /\ key \notin DOMAIN e THEN (key :> value[1]) @@ e
           ELSE e
      [] OTHER -> e

\* ... and after one line of section 4.3
AppliedLine(m, e, raw) ==
    IF IsCommentLine(raw) \/ ~HasKey(raw) THEN e
    ELSE Applied(m, e, Strip(BeforeEq(raw)),
                 IF EqIdx(raw) = {} THEN None ELSE Some(StripEnd(AfterEq(raw))))

RECURSIVE AppliedLines(_, _, _, _)
AppliedLines(m, e, ls, n) ==
    IF n = 0 THEN e ELSE AppliedLine(m, AppliedLines(m, e, ls, n - 1), ls[n])

\* ------------------------------------------------------------------ claims

\* C1: split_once splits on the first '=' only: with no '=' in s the result
\* is (s, None); otherwise the key holds no '=', the value is Some, and
\* key + "=" + value is s again (nothing trimmed, nothing unquoted).
C1_SplitOnFirstEq ==
    status = "ret" =>
        IF \A i \in 1..Len(file) : file[i] # "="
        THEN parsed = <<file, None>>
        ELSE /\ parsed[2] # None
             /\ \A i \in 1..Len(parsed[1]) : parsed[1][i] # "="
             /\ parsed[1] \o <<"=">> \o parsed[2][1] = file

C1_Witness ==
    /\ status = "ret"
    /\ file = <<" ", "=", "=", "a", " ">>
    /\ parsed = << <<" ">>, << <<"=", "a", " ">> >> >>

\* C2: after Override.set(key, value) the key is absent when the value is
\* None or "", and maps to the value otherwise, whatever it was before; no
\* other key changes and the call returns Ok.
C2_OverrideSet ==
    (mode = "Override" /\ calls # <<>>) =>
        LET c == LastCall
        IN  /\ c.res = "Ok"
            /\ IF c.value = None \/ c.value = << <<>> >>
               THEN c.key \notin DOMAIN env
               ELSE c.key \in DOMAIN env /\ env[c.key] = c.value[1]
            /\ (DOMAIN env) \ {c.key} = (DOMAIN c.before) \ {c.key}
            /\ \A k \in (DOMAIN env) \ {c.key} : env[k] = c.before[k]

C2_Witness ==
    /\ mode = "Override"
    /\ calls # <<>>
    /\ LastCall.key = <<"a">>
    /\ LastCall.value = << <<"=">> >>
    /\ <<"a">> \in DOMAIN LastCall.before
    /\ LastCall.before[<<"a">>] = <<"o">>
    /\ env[<<"a">>] = <<"=">>
    /\ env[<<"a", "a">>] = <<"o">>

\* C3: Skip.set(key, value) leaves the store as it is when the value is None
\* or the key already has a value (also ""); it sets the key to the value
\* (also "") when the key is absent.  It never removes a key and returns Ok.
C3_SkipSet ==
    (mode = "Skip" /\ calls # <<>>) =>
        LET c == LastCall
            fills == c.value # None /\ c.key \notin DOMAIN c.before
        IN  /\ c.res = "Ok"
            /\ DOMAIN env = (DOMAIN c.before) \cup (IF fills THEN {c.key} ELSE {})
            /\ \A k \in DOMAIN c.before : env[k] = c.before[k]
            /\ fills => env[c.key] = c.value[1]

C3_Witness ==
    /\ mode = "Skip"
    /\ calls # <<>>
    /\ LastCall.key = <<"a">>
    /\ LastCall.value = << <<"a">> >>
    /\ LastCall.before = (<<"a">> :> <<>>)
    /\ env = (<<"a">> :> <<>>)

\* C4: the policy's set is only invoked with a key that is non-empty and has
\* no blank at either end, and only for a line whose text before the first
\* '=' holds a non-blank character.
C4_KeyNonEmptyTrimmed ==
    \A n \in 1..Len(calls) :
        LET c == calls[n]
        IN  /\ c.key # <<>>
            /\ ~Blank(c.key[1])
            /\ ~Blank(c.key[Len(c.key)])
            /\ HasKey(RawLine(c.line))

C4_Witness ==
    /\ file = <<" ", " ", "=", " ", "a">>
    /\ status = "ok"
    /\ pos = 1
    /\ calls = <<>>

\* C5: the load is fail-fast: set is invoked in file order; once a read or a
\* set has failed the load has returned an error and has gone no further
\* than the failing line; the load returns Ok only with every line read and
\* every set Ok.
C5_FailFast ==
    /\ \A n \in 1..Len(calls) : calls[n].line <= pos
    /\ \A n \in 1..Len(calls) : \A k \in 1..(n - 1) : calls[k].line < calls[n].line
    /\ (\E n \in 1..Len(calls) : calls[n].res = "Err") => failedLine # 0
    /\ failedLine # 0 =>
          /\ status = "err"
          /\ pos <= failedLine
          /\ \A n \in 1..Len(calls) : calls[n].line <= failedLine
          /\ \A n \in 1..(Len(calls) - 1) : calls[n].res = "Ok"
    /\ status = "err" => failedLine # 0
    /\ status = "ok" =>
          /\ failedLine = 0
          /\ pos = Len(lines(file))
          /\ \A n \in 1..Len(calls) : calls[n].res = "Ok"

C5_Witness ==
    /\ mode = "Other"
    /\ file = <<"a", LF, "a", "=", "a">>
    /\ status = "err"
    /\ failedLine = 1
    /\ pos = 1
    /\ Len(calls) = 1
    /\ calls[1].res = "Err"

\* C6: no rollback: when a load has failed at line i, the store is the one
\* obtained by applying the policy to the lines before line i, in order.
C6_NoRollback ==
    status = "err" =>
        env = AppliedLines(mode, envStart, lines(file), failedLine - 1)

C6_Witness ==
    /\ mode = "Override"
    /\ file = <<"a", LF, "a", "a", "=">>
    /\ status = "err"
    /\ failedLine = 3
    /\ envStart = (<<"a">> :> <<"o">>) @@ (<<"a", "a">> :> <<"o">>)
    /\ env = <<>>

\* C7: under Override or Skip, a content of blank lines and comment lines
\* only leaves the store as it was; set is never invoked, so the load can
\* only fail on a read and otherwise returns Ok.
OnlyBlankOrComment ==
    \A i \in 1..Len(lines(file)) :
        Inked(RawLine(i)) = {} \/ IsCommentLine(RawLine(i))

C7_CommentsAndBlanksOnly ==
    (mode \in {"Override", "Skip"} /\ OnlyBlankOrComment) =>
        /\ env = envStart
        /\ calls = <<>>
        /\ status = "err" => failedLine = pos + 1
        /\ (pos = Len(lines(file)) /\ failedLine = 0) => status \in {"running", "ok"}

C7_Witness ==
    /\ mode = "Override"
    /\ file = <<" ", LF, "#", "=", "a">>
    /\ status = "ok"
    /\ ~reloaded
    /\ pos = 2
    /\ envStart = (<<"a">> :> <<"o">>) @@ (<<"a", "a">> :> <<"o">>)
    /\ env = envStart

\* C8: a line whose first non-blank character is '#' never reaches the
\* policy, also when indented and when it holds '='; a line that holds '#'
\* elsewhere and has a key reaches the policy.
C8_CommentAfterTrim ==
    \A i \in 1..pos :
        /\ IsCommentLine(RawLine(i)) => ~CalledAt(i)
        /\ ( /\ \E j \in 1..Len(RawLine(i)) : RawLine(i)[j] = "#"
             /\ ~IsCommentLine(RawLine(i))
             /\ HasKey(RawLine(i)) ) => CalledAt(i)

C8_Witness ==
    /\ file = <<" ", "#", "a", "=", "a">>
    /\ status = "ok"
    /\ pos = 1
    /\ calls = <<>>

\* C9 as stated: set is handed the stripped text before the first '=' as the
\* key and, as the value, the raw text after the first '=' of the line,
\* blanks next to it included (None when the line has no '=').
C9_ValueRaw ==
    \A n \in 1..Len(calls) :
        LET c == calls[n]
            raw == RawLine(c.line)
        IN  /\ c.key = Strip(BeforeEq(raw))
            /\ c.value = IF EqIdx(raw) = {} THEN None ELSE Some(AfterEq(raw))

\* C9 as amended: the value is the text after the first '=' with the blanks
\* at the end of the line stripped; blanks right after the '=' and inside
\* the value are handed on (None when the line has no '=').
C9_ValueTrailingStripped ==
    \A n \in 1..Len(calls) :
        LET c == calls[n]
            raw == RawLine(c.line)
        IN  /\ c.key = Strip(BeforeEq(raw))
            /\ c.value = IF EqIdx(raw) = {} THEN None ELSE Some(StripEnd(AfterEq(raw)))

C9_Witness ==
    /\ file = <<"a", "=", " ", "a", " ">>
    /\ Len(calls) = 1
    /\ calls[1].key = <<"a">>
    /\ calls[1].value = << <<" ", "a">> >>

\* C10: under Override or Skip, a second load of the same lines that also
\* returns Ok leaves the store as the first load left it.
C10_Idempotent ==
    (reloaded /\ status = "ok" /\ mode \in {"Override", "Skip"}) => env = envStart

C10_Witness ==
    /\ reloaded
    /\ status = "ok"
    /\ mode = "Override"
    /\ file = <<"a", "=", "a", LF, "a">>
    /\ Len(calls) = 2
    /\ calls[1].before = (<<"a", "a">> :> <<"o">>)
    /\ env = (<<"a", "a">> :> <<"o">>)
====
